---- MODULE Spec2Model ----
(***************************************************************************)
(* A model of AssetOS Ultra (src/main.py): the per-ticker fetch and Graham *)
(* valuation (fetch_stock_deep_dive), the Nifty scanner body, the          *)
(* dashboard watchlist loop, the "Add to Watchlist" handler with its CSV   *)
(* round trip, and the portfolio page ("Save Trade" and the aggregation    *)
(* loop).                                                                  *)
(*                                                                         *)
(* Money amounts (prices, EPS, book value) are integers counting           *)
(* hundredths, the resolution of round(graham, 2).  The comparisons        *)
(* against graham = sqrt(22.5 * eps * bv) are made exactly on the squares, *)
(* so the model is the code's arithmetic over the reals; the last-bit      *)
(* rounding of IEEE doubles is not modelled.                               *)
(***************************************************************************)
EXTENDS Integers, Sequences, FiniteSets, TLC

VARIABLES
    pc,              \* position of the script run
    ticker,          \* argument of the fetch_stock_deep_dive call under study
    outcome,         \* what the market-data lookup of that call gives
    data,            \* the record fetch_stock_deep_dive returned
    prev,            \* the record of the previous call (for re-normalisation)
    scanrow,         \* the rows the scanner body gives for the same lookup
    watchlist_file,  \* my_watchlist.csv: the text cells under the header
    portfolio_file,  \* my_portfolio.csv: the rows under the header
    items,           \* the sequence a running loop iterates over
    idx,             \* number of items the running loop has processed
    fetchLog,        \* the lookup outcome the loop got for each processed item
    rows,            \* w_data / results / pf_data
    total_inv,       \* portfolio page: total_inv
    total_curr,      \* portfolio page: total_curr
    sector_map       \* portfolio page: sector_map

vars == <<pc, ticker, outcome, data, prev, scanrow, watchlist_file,
          portfolio_file, items, idx, fetchLog, rows, total_inv, total_curr,
          sector_map>>

valuationVars == <<ticker, outcome, data, prev, scanrow>>
fileVars == <<watchlist_file, portfolio_file>>
loopVars == <<items, idx, fetchLog, rows>>
totalVars == <<total_inv, total_curr, sector_map>>

----------------------------------------------------------------------------
(* Bounds of the model *)

MaxEps == 10
MaxBook == 10
MaxPrice == 75

(* Program constants *)

\* round(graham, 2): two decimals, so amounts count hundredths
Cents == 100
\* [:400]
AboutLimit == 400

----------------------------------------------------------------------------
(* Text: a Python str is a sequence of characters *)

Text(n) == [i \in 1..n |-> IF i % 2 = 1 THEN "a" ELSE "b"]

\* s[:n]
Prefix(s, n) == IF Len(s) <= n THEN s ELSE SubSeq(s, 1, n)

Marker == <<".", ".", ".">>

NoSummary ==
    <<"N","o"," ","s","u","m","m","a","r","y"," ",
      "a","v","a","i","l","a","b","l","e",".">>

----------------------------------------------------------------------------
(* The market-data lookup: stock.info is a dict in which any key may be    *)
(* absent; the lookup as a whole may raise.                                *)

InfoKeys ==
    {"shortName", "currentPrice", "previousClose", "marketCap", "trailingPE",
     "forwardPE", "pegRatio", "priceToBook", "returnOnEquity", "debtToEquity",
     "trailingEps", "bookValue", "sector", "longBusinessSummary"}

\* info.get(key, default)
Get(info, key, default) == IF key \in DOMAIN info THEN info[key] ELSE default

Restrict(f, K) == [k \in K |-> f[k]]

Failed == [ok |-> FALSE]
Fetched(info) == [ok |-> TRUE, info |-> info]

----------------------------------------------------------------------------
(* Graham valuation, lines 117-129 *)

RECURSIVE isqrtSearch(_, _, _)
isqrtSearch(n, lo, hi) ==
    IF lo = hi THEN lo
    ELSE LET mid == (lo + hi + 1) \div 2
         IN  IF mid * mid <= n THEN isqrtSearch(n, mid, hi)
             ELSE isqrtSearch(n, lo, mid - 1)

\* floor(sqrt(n))
isqrt(n) == isqrtSearch(n, 0, 46340)

\* round(math.sqrt(22.5 * eps * bv), 2) in hundredths: the integer nearest to
\* sqrt(22.5*eps*bv) = sqrt(90*eps*bv)/2 (a tie would need 90*eps*bv odd).
RoundedGraham(eps, bv) == (isqrt(90 * eps * bv) + 1) \div 2

\* a variant with an inclusive BUY boundary (price <= graham)
BelowOrAtGraham(price, eps, bv) ==
    price < 0 \/ 2 * price * price <= 45 * eps * bv

\* price < math.sqrt(22.5 * eps * bv), for eps, bv > 0
BelowGraham(price, eps, bv) ==
    price < 0 \/ 2 * price * price < 45 * eps * bv

\* price > math.sqrt(22.5 * eps * bv) * 1.5, for eps, bv > 0
AboveGrahamBand(price, eps, bv) ==
    price > 0 /\ 8 * price * price > 405 * eps * bv

NoData == [ok |-> FALSE]

\* the dict of lines 99-115, with the defaults of lines 118-119
Normalized(t, info) ==
    [ok |-> TRUE,
     Ticker |-> t,
     Name |-> Get(info, "shortName", t),
     Price |-> Get(info, "currentPrice", 0),
     PrevClose |-> Get(info, "previousClose", 0),
     MarketCap |-> Get(info, "marketCap", 0),
     PERatio |-> Get(info, "trailingPE", 0),
     ForwardPE |-> Get(info, "forwardPE", 0),
     PEGRatio |-> Get(info, "pegRatio", 0),
     PriceBook |-> Get(info, "priceToBook", 0),
     ROE |-> Get(info, "returnOnEquity", 0),
     DebtEquity |-> Get(info, "debtToEquity", 0),
     EPS |-> Get(info, "trailingEps", 0),
     BookValue |-> Get(info, "bookValue", 0),
     Sector |-> Get(info, "sector", "Unknown"),
     About |-> Prefix(Get(info, "longBusinessSummary", NoSummary), AboutLimit)
                 \o Marker,
     IntrinsicValue |-> 0,
     Signal |-> "HOLD"]

\* a variant that rounds first and compares the price with the rounded value
SmartSignalRounded(price, eps, bv) ==
    IF price < RoundedGraham(eps, bv) THEN "BUY"
    ELSE IF 2 * price > 3 * RoundedGraham(eps, bv) THEN "SELL"
    ELSE "HOLD"

\* lines 126-129
SmartSignal(price, eps, bv) ==
    IF BelowGraham(price, eps, bv) THEN "BUY"
    ELSE IF AboveGrahamBand(price, eps, bv) THEN "SELL"
    ELSE "HOLD"

\* a variant whose gate lets zero through (eps >= 0 and bv >= 0)
ComputableNonStrict(eps, bv) == eps >= 0 /\ bv >= 0

\* line 121
Computable(eps, bv) == eps > 0 /\ bv > 0

\* lines 117-129
Valued(d) ==
    IF Computable(d.EPS, d.BookValue)
    THEN [d EXCEPT !.IntrinsicValue = RoundedGraham(d.EPS, d.BookValue),
                   !.Signal = SmartSignal(d.Price, d.EPS, d.BookValue)]
    ELSE d

\* a variant that treats an empty info dict as no data (if not info: return None)
fetch_NoDataOnEmptyInfo(t, o) ==
    IF o.ok /\ DOMAIN o.info # {} THEN Valued(Normalized(t, o.info)) ELSE NoData

\* fetch_stock_deep_dive: the data element of what it returns
fetch_stock_deep_dive(t, o) ==
    IF o.ok THEN Valued(Normalized(t, o.info)) ELSE NoData

\* the body of the Quick Scanner loop, lines 235-257: the rows one ticker
\* adds to results
ScannerBody(t, o) ==
    IF ~o.ok THEN <<>>
    ELSE LET price == Get(o.info, "currentPrice", 0)
             eps == Get(o.info, "trailingEps", 0)
             bv == Get(o.info, "bookValue", 0)
         IN  IF eps > 0 /\ bv > 0
             THEN <<[Ticker |-> t,
                     Price |-> price,
                     IntrinsicValue |-> RoundedGraham(eps, bv),
                     Status |-> IF BelowGraham(price, eps, bv) THEN "BUY"
                                ELSE IF AboveGrahamBand(price, eps, bv)
                                     THEN "EXPENSIVE"
                                ELSE "Fair",
                     Sector |-> Get(o.info, "sector", "N/A")]>>
             ELSE <<>>

\* the fields of a returned record, keyed as the lookup keys them
AsRaw(d) ==
    [k \in InfoKeys |->
        CASE k = "shortName" -> d.Name
          [] k = "currentPrice" -> d.Price
          [] k = "previousClose" -> d.PrevClose
          [] k = "marketCap" -> d.MarketCap
          [] k = "trailingPE" -> d.PERatio
          [] k = "forwardPE" -> d.ForwardPE
          [] k = "pegRatio" -> d.PEGRatio
          [] k = "priceToBook" -> d.PriceBook
          [] k = "returnOnEquity" -> d.ROE
          [] k = "debtToEquity" -> d.DebtEquity
          [] k = "trailingEps" -> d.EPS
          [] k = "bookValue" -> d.BookValue
          [] k = "sector" -> d.Sector
          [] OTHER -> d.About]

----------------------------------------------------------------------------
(* Inputs of the valuation specification *)

EpsValues == (-1 .. MaxEps) \cup {10 * Cents}
BookValues == (-1 .. MaxBook) \cup {20 * Cents}
Prices == (0 .. MaxPrice) \cup {5000, 6708, 6709, 10062, 10063}
SummaryLens == {0, 1, AboutLimit - 3, AboutLimit - 2, AboutLimit,
                AboutLimit + 1, AboutLimit + 5}

SampleInfo ==
    [k \in InfoKeys |->
        CASE k = "shortName" -> "Acme Ltd"
          [] k = "sector" -> "Energy"
          [] k = "longBusinessSummary" -> Text(5)
          [] k = "currentPrice" -> 50
          [] k = "trailingEps" -> 2
          [] k = "bookValue" -> 5
          [] OTHER -> 7]

PresenceInfos == {Restrict(SampleInfo, K) : K \in SUBSET InfoKeys}

NumericInfos ==
    {[SampleInfo EXCEPT !["currentPrice"] = p, !["trailingEps"] = e,
                        !["bookValue"] = b] :
        p \in Prices, e \in EpsValues, b \in BookValues}

SummaryInfos ==
    {[SampleInfo EXCEPT !["longBusinessSummary"] = Text(n)] : n \in SummaryLens}

RawInfos == PresenceInfos \cup NumericInfos \cup SummaryInfos

Outcomes == {Failed} \cup {Fetched(i) : i \in RawInfos}

TickerArgs == {"X", "TCS.NS"}

----------------------------------------------------------------------------
(* The valuation specification: one call of fetch_stock_deep_dive on a     *)
(* lookup outcome, the scanner body on the same outcome, and the record    *)
(* fed back through the normalisation.                                     *)

IdleFiles == watchlist_file = <<>> /\ portfolio_file = <<>>
IdleLoop == items = <<>> /\ idx = 0 /\ fetchLog = <<>> /\ rows = <<>>
IdleTotals == total_inv = 0 /\ total_curr = 0 /\ sector_map = <<>>

InitValuation ==
    /\ pc = "call"
    /\ ticker \in TickerArgs
    /\ outcome \in Outcomes
    /\ data = NoData
    /\ prev = NoData
    /\ scanrow = <<>>
    /\ IdleFiles /\ IdleLoop /\ IdleTotals

DeepDive ==
    /\ pc = "call"
    /\ data' = fetch_stock_deep_dive(ticker, outcome)
    /\ pc' = "returned"
    /\ UNCHANGED <<ticker, outcome, prev, scanrow, fileVars, loopVars, totalVars>>

QuickScan ==
    /\ pc = "returned"
    /\ scanrow' = ScannerBody(ticker, outcome)
    /\ pc' = "scanned"
    /\ UNCHANGED <<ticker, outcome, data, prev, fileVars, loopVars, totalVars>>

Renormalize ==
    /\ pc = "returned"
    /\ data.ok
    /\ prev' = data
    /\ data' = fetch_stock_deep_dive(ticker, Fetched(AsRaw(data)))
    /\ pc' = "renormalized"
    /\ UNCHANGED <<ticker, outcome, scanrow, fileVars, loopVars, totalVars>>

NextValuation == DeepDive \/ QuickScan \/ Renormalize

SpecValuation == InitValuation /\ [][NextValuation]_vars

----------------------------------------------------------------------------
(* CSV persistence, lines 82-88.  save_csv writes each value as its text;  *)
(* load_csv (pandas.read_csv) infers the type of the column from the text  *)
(* of its cells: a column in which every cell is a number is read as       *)
(* numbers, not as text.                                                   *)

\* the texts made of digits only among the tickers of the model
DigitTexts == {"500325"}

PyStr(text) == [py |-> "str", text |-> text]
PyInt(text) == [py |-> "int", text |-> text]

\* load_csv(WATCHLIST_FILE, ['Ticker'])['Ticker'].tolist()
load_watchlist(cells) ==
    IF cells # <<>> /\ \A i \in 1..Len(cells) : cells[i] \in DigitTexts
    THEN [i \in 1..Len(cells) |-> PyInt(cells[i])]
    ELSE [i \in 1..Len(cells) |-> PyStr(cells[i])]

\* save_csv(pd.DataFrame(values, columns=['Ticker']), WATCHLIST_FILE)
save_watchlist(values) == [i \in 1..Len(values) |-> values[i].text]

Elems(seq) == {seq[i] : i \in 1..Len(seq)}

\* search_ticker in curr_watchlist (Python ==: a str never equals an int)
InWatchlist(t, curr_watchlist) == PyStr(t) \in Elems(curr_watchlist)

\* lines 290-296: what the file holds after the handler
add_to_watchlist(t, cells) ==
    LET curr_watchlist == load_watchlist(cells)
    IN  IF ~InWatchlist(t, curr_watchlist)
        THEN save_watchlist(Append(curr_watchlist, PyStr(t)))
        ELSE cells

----------------------------------------------------------------------------
(* The watchlist specification: "Add to Watchlist" on the Deep Analysis    *)
(* page, the dashboard's watchlist loop and the Quick Scanner loop.  Each  *)
(* iteration of a loop makes its own market-data lookup.  The 10-minute    *)
(* memoisation of fetch_stock_deep_dive only narrows the outcomes a call   *)
(* can give, so every call is free to give any outcome.                    *)

MaxWatch == 3
UniverseLen == 3

\* what the user types into the ticker box
SearchTickers == {"TCS.NS", "INFY.NS", "500325"}

\* the head of NIFTY_100, line 60
NIFTY_100 == <<"RELIANCE.NS", "TCS.NS", "HDFCBANK.NS", "ICICIBANK.NS", "INFY.NS">>

Universe == SubSeq(NIFTY_100, 1, UniverseLen)

ScanInfos ==
    {<<>>} \cup
    {[k \in {"currentPrice", "trailingEps", "bookValue"} |->
        CASE k = "currentPrice" -> p [] k = "trailingEps" -> e [] OTHER -> 5] :
        p \in {10, 50}, e \in {0, 2}}

ScanOutcomes == {Failed} \cup {Fetched(i) : i \in ScanInfos}

IdleValuation ==
    /\ ticker = "" /\ outcome = Failed /\ data = NoData /\ prev = NoData
    /\ scanrow = <<>>

InitWatchlist ==
    /\ pc = "idle"
    /\ IdleValuation /\ IdleFiles /\ IdleLoop /\ IdleTotals

\* Deep Analysis page with the button pressed, lines 290-296 (the page then
\* fetches and displays search_ticker, which changes no state)
AddToWatchlist(t) ==
    /\ pc = "idle"
    /\ Len(add_to_watchlist(t, watchlist_file)) <= MaxWatch
    /\ watchlist_file' = add_to_watchlist(t, watchlist_file)
    /\ UNCHANGED <<pc, valuationVars, portfolio_file, loopVars, totalVars>>

\* line 208
sig_icon(signal) ==
    IF signal = "BUY" THEN "green" ELSE IF signal = "SELL" THEN "red" ELSE "yellow"

\* a variant that leaves out what has no intrinsic value, as the scanner does
WatchlistBodyComputableOnly(t, o) ==
    LET info == fetch_stock_deep_dive(t.text, o)
    IN  IF info.ok /\ info.IntrinsicValue > 0
        THEN <<[Ticker |-> t.text, Price |-> info.Price,
                Value |-> info.IntrinsicValue,
                Signal |-> <<sig_icon(info.Signal), info.Signal>>,
                Sector |-> info.Sector]>>
        ELSE <<>>

\* the body of the watchlist loop, lines 205-216: the rows one ticker adds
WatchlistBody(t, o) ==
    LET info == fetch_stock_deep_dive(t.text, o)
    IN  IF info.ok
        THEN <<[Ticker |-> t.text, Price |-> info.Price,
                Value |-> info.IntrinsicValue,
                Signal |-> <<sig_icon(info.Signal), info.Signal>>,
                Sector |-> info.Sector]>>
        ELSE <<>>

\* line 200: the dashboard loads the watchlist; line 202: an empty one shows
\* a hint instead of a table
DashboardStart ==
    /\ pc = "idle"
    /\ LET watchlist == load_watchlist(watchlist_file)
       IN  IF watchlist # <<>>
           THEN /\ pc' = "dashboard"
                /\ items' = watchlist
           ELSE /\ pc' = "dashboard_empty"
                /\ items' = <<>>
    /\ idx' = 0 /\ fetchLog' = <<>> /\ rows' = <<>>
    /\ UNCHANGED <<valuationVars, fileVars, totalVars>>

\* a variant of the loop's advance that gives up at the first failed lookup
NextIndexStopOnFailure(i, n, o) == IF o.ok THEN i + 1 ELSE n

\* for ...: the index after item i + 1 of n, whatever the lookup gave
NextIndex(i, n, o) == i + 1

\* one iteration of the watchlist loop, lines 204-216
DashboardStep(o) ==
    /\ pc = "dashboard"
    /\ idx < Len(items)
    /\ rows' = rows \o WatchlistBody(items[idx + 1], o)
    /\ fetchLog' = Append(fetchLog, o)
    /\ idx' = NextIndex(idx, Len(items), o)
    /\ UNCHANGED <<pc, items, valuationVars, fileVars, totalVars>>

\* line 218
DashboardShow ==
    /\ pc = "dashboard"
    /\ idx = Len(items)
    /\ pc' = "dashboard_shown"
    /\ UNCHANGED <<valuationVars, fileVars, loopVars, totalVars>>

\* line 227: the scan button
ScannerStart ==
    /\ pc = "idle"
    /\ pc' = "scanner"
    /\ items' = [i \in 1..Len(Universe) |-> PyStr(Universe[i])]
    /\ idx' = 0 /\ fetchLog' = <<>> /\ rows' = <<>>
    /\ UNCHANGED <<valuationVars, fileVars, totalVars>>

\* one iteration of the scanner loop, lines 234-259
ScannerStep(o) ==
    /\ pc = "scanner"
    /\ idx < Len(items)
    /\ rows' = rows \o ScannerBody(items[idx + 1].text, o)
    /\ fetchLog' = Append(fetchLog, o)
    /\ idx' = NextIndex(idx, Len(items), o)
    /\ UNCHANGED <<pc, items, valuationVars, fileVars, totalVars>>

\* lines 264-280: the tabs filter on df['Status'], a column an empty
\* DataFrame does not have (KeyError)
ScannerShow ==
    /\ pc = "scanner"
    /\ idx = Len(items)
    /\ pc' = IF rows = <<>> THEN "scanner_error" ELSE "scanner_shown"
    /\ UNCHANGED <<valuationVars, fileVars, loopVars, totalVars>>

\* the next script run starts from the files alone
Rerun ==
    /\ pc \in {"dashboard_shown", "dashboard_empty", "scanner_shown",
               "scanner_error", "portfolio_shown", "portfolio_empty",
               "portfolio_error"}
    /\ pc' = "idle"
    /\ items' = <<>> /\ idx' = 0 /\ fetchLog' = <<>> /\ rows' = <<>>
    /\ total_inv' = 0 /\ total_curr' = 0 /\ sector_map' = <<>>
    /\ UNCHANGED <<valuationVars, fileVars>>

NextWatchlist ==
    \/ \E t \in SearchTickers : AddToWatchlist(t)
    \/ DashboardStart
    \/ \E o \in ScanOutcomes : DashboardStep(o)
    \/ DashboardShow
    \/ ScannerStart
    \/ \E o \in ScanOutcomes : ScannerStep(o)
    \/ ScannerShow
    \/ Rerun

SpecWatchlist == InitWatchlist /\ [][NextWatchlist]_vars

----------------------------------------------------------------------------
(* The portfolio specification: "Save Trade" and the aggregation loop of   *)
(* the Portfolio page, lines 343-391.                                      *)

MaxTrades == 2
MaxQty == 2
MaxAvgStep == 1

\* st.number_input("Qty", 1): the second positional parameter of
\* number_input is min_value
QtyMin == 1
\* st.number_input("Avg Price", 1000.0), in whole currency units
AvgPriceMin == 1000

\* what the user may try to enter in the two number boxes
QtyEntries == -1 .. MaxQty
AvgPriceEntries ==
    {-Cents, 0, 1, AvgPriceMin * Cents - 1}
    \cup {AvgPriceMin * Cents + 50 * k : k \in 0..MaxAvgStep}

TradeTickers == {"INFY.NS", "TCS.NS"}

\* a variant that takes the number as the initial value, with no minimum
number_input_unbounded(min_value, entries) == entries

\* st.number_input(label, min_value): the values the widget can return
number_input(min_value, entries) == {v \in entries : v >= min_value}

\* round(n / d, 0) for d > 0, ties to even
RoundHalfEven(n, d) ==
    LET q == n \div d
        r == n % d
    IN  IF 2 * r < d THEN q
        ELSE IF 2 * r > d THEN q + 1
        ELSE IF q % 2 = 0 THEN q ELSE q + 1

\* round(num / den * 100, 2) in hundredths of a percent; a zero divisor
\* gives inf or nan (the operands are numpy floats)
PctOf(num, den) ==
    IF den = 0 THEN [finite |-> FALSE]
    ELSE [finite |-> TRUE, value |-> RoundHalfEven(num * 10000, den)]

PortfolioInfos ==
    {<<>>} \cup
    {[k \in {"currentPrice"} |-> AvgPriceMin * Cents + 1000]} \cup
    {[k \in {"currentPrice", "sector"} |->
        IF k = "currentPrice" THEN AvgPriceMin * Cents - 1000 ELSE "IT"]}

PortfolioOutcomes == {Failed} \cup {Fetched(i) : i \in PortfolioInfos}

InitPortfolio ==
    /\ pc = "idle"
    /\ IdleValuation /\ IdleFiles /\ IdleLoop /\ IdleTotals

\* lines 345-354: the row is appended, the file written, the script rerun
SaveTrade(p_tic, p_qty, p_avg) ==
    /\ pc = "idle"
    /\ Len(portfolio_file) < MaxTrades
    /\ p_qty \in number_input(QtyMin, QtyEntries)
    /\ p_avg \in number_input(AvgPriceMin * Cents, AvgPriceEntries)
    /\ portfolio_file' =
          Append(portfolio_file,
                 [Ticker |-> p_tic, Qty |-> p_qty, AvgPrice |-> p_avg])
    /\ UNCHANGED <<pc, valuationVars, watchlist_file, loopVars, totalVars>>

\* lines 343, 356-361: the page without the button pressed
PortfolioStart ==
    /\ pc = "idle"
    /\ pc' = IF portfolio_file # <<>> THEN "portfolio" ELSE "portfolio_empty"
    /\ items' = portfolio_file
    /\ idx' = 0 /\ fetchLog' = <<>> /\ rows' = <<>>
    /\ total_inv' = 0 /\ total_curr' = 0 /\ sector_map' = <<>>
    /\ UNCHANGED <<valuationVars, fileVars>>

\* sector_map[sec] = sector_map.get(sec, 0) + val
SectorAdd(map, sec, val) ==
    [s \in DOMAIN map \cup {sec} |->
        IF s = sec THEN Get(map, sec, 0) + val ELSE map[s]]

\* one iteration of the aggregation loop, lines 363-384; tick.info is read
\* outside any try, so a lookup that raises ends the script run
PortfolioStep(o) ==
    /\ pc = "portfolio"
    /\ idx < Len(items)
    /\ fetchLog' = Append(fetchLog, o)
    /\ IF ~o.ok
       THEN /\ pc' = "portfolio_error"
            /\ UNCHANGED <<idx, rows, totalVars>>
       ELSE LET row == items[idx + 1]
                curr == Get(o.info, "currentPrice", row.AvgPrice)
                sec == Get(o.info, "sector", "Other")
                val == curr * row.Qty
                inv == row.AvgPrice * row.Qty
            IN  /\ total_inv' = total_inv + inv
                /\ total_curr' = total_curr + val
                /\ sector_map' = SectorAdd(sector_map, sec, val)
                /\ rows' = Append(rows,
                      [Stock |-> row.Ticker, Qty |-> row.Qty,
                       AvgPrice |-> row.AvgPrice, LTP |-> curr,
                       CurrentVal |-> val, PnL |-> val - inv,
                       PnLPct |-> PctOf(val - inv, inv)])
                /\ idx' = idx + 1
                /\ pc' = pc
    /\ UNCHANGED <<items, valuationVars, fileVars>>

\* lines 386-404: the summary cards, the holdings table and the pie
PortfolioShow ==
    /\ pc = "portfolio"
    /\ idx = Len(items)
    /\ pc' = "portfolio_shown"
    /\ UNCHANGED <<valuationVars, fileVars, loopVars, totalVars>>

\* line 391: the percentage of the Net Profit/Loss card
NetPct == PctOf(total_curr - total_inv, total_inv)

NextPortfolio ==
    \/ \E t \in TradeTickers, q \in QtyEntries, a \in AvgPriceEntries :
          SaveTrade(t, q, a)
    \/ PortfolioStart
    \/ \E o \in PortfolioOutcomes : PortfolioStep(o)
    \/ PortfolioShow
    \/ Rerun

SpecPortfolio == InitPortfolio /\ [][NextPortfolio]_vars

----------------------------------------------------------------------------
(* Claims about the valuation step and the normalisation *)

Returned == pc = "returned" /\ outcome.ok /\ data.ok

\* C1 (as stated): whenever eps <= 0 or bookValue <= 0, the valuation step
\* returns intrinsic value 0 and signal NEUTRAL, whatever the price.
C1_NeutralWhenNotComputable ==
    (Returned /\ (data.EPS <= 0 \/ data.BookValue <= 0))
        => (data.IntrinsicValue = 0 /\ data.Signal = "NEUTRAL")

\* C1 (amended): whenever eps <= 0 or bookValue <= 0, the valuation step
\* returns intrinsic value 0 and signal HOLD, whatever the price (never BUY,
\* never SELL; the code has no NEUTRAL signal).
C1_HoldWhenNotComputable ==
    (pc = "returned" /\ outcome.ok /\
     (Get(outcome.info, "trailingEps", 0) <= 0 \/
      Get(outcome.info, "bookValue", 0) <= 0))
        => (data.ok /\ data.IntrinsicValue = 0 /\ data.Signal = "HOLD")

C1_Witness ==
    /\ Returned
    /\ data.EPS = 0 /\ data.BookValue > 0 /\ data.Price > 0
    /\ data.Signal = "HOLD"

\* C2: for eps > 0 and bookValue > 0 the signal is BUY exactly when
\* price < graham, SELL exactly when price > 1.5 * graham and HOLD otherwise
\* (graham unrounded, both boundaries exclusive); the scanner's status uses
\* the same two thresholds.
C2_SignalThresholds ==
    /\ (Returned /\ data.EPS > 0 /\ data.BookValue > 0) =>
          LET p == data.Price
              g2 == 45 * data.EPS * data.BookValue   \* 2 * graham^2
          IN  /\ data.Signal \in {"BUY", "SELL", "HOLD"}
              /\ data.Signal = "BUY" <=> 2 * p * p < g2
              /\ data.Signal = "SELL" <=> 8 * p * p > 9 * g2
              /\ data.Signal = "HOLD" <=> (2 * p * p >= g2 /\ 8 * p * p <= 9 * g2)
    /\ (pc = "scanned" /\ Len(scanrow) = 1) =>
          LET r == scanrow[1]
              g2 == 45 * Get(outcome.info, "trailingEps", 0)
                       * Get(outcome.info, "bookValue", 0)
          IN  /\ r.Status = "BUY" <=> 2 * r.Price * r.Price < g2
              /\ r.Status = "EXPENSIVE" <=> 8 * r.Price * r.Price > 9 * g2
              /\ r.Status = "Fair" <=> (data.Signal = "HOLD")

\* price == graham, and the record says HOLD
C2_Witness ==
    /\ Returned
    /\ data.EPS > 0 /\ data.BookValue > 0
    /\ 2 * data.Price * data.Price = 45 * data.EPS * data.BookValue
    /\ data.Signal = "HOLD"

\* price == 1.5 * graham, and the record says HOLD
C2_SellBoundaryReached ==
    /\ Returned
    /\ data.EPS > 0 /\ data.BookValue > 0
    /\ 8 * data.Price * data.Price = 405 * data.EPS * data.BookValue
    /\ data.Signal = "HOLD"

\* C3 (as stated): when the price equals the reported (rounded) intrinsic
\* value, the signal is HOLD and not BUY.
C3_RoundedTieIsHold ==
    (Returned /\ data.EPS > 0 /\ data.BookValue > 0
        /\ data.Price = data.IntrinsicValue)
        => data.Signal = "HOLD"

\* C3 (amended): the signal is decided against the unrounded graham, so a
\* price equal to the reported intrinsic value is BUY when that rounded value
\* lies below graham (graham was rounded down) and HOLD when it lies at or
\* above graham; eps = 10, bookValue = 20, price = 67.08 gives intrinsic
\* value 67.08 and BUY.
C3_RoundedTieDecidedUnrounded ==
    (Returned /\ data.EPS > 0 /\ data.BookValue > 0
        /\ data.Price = data.IntrinsicValue)
        => /\ data.Signal =
                IF 2 * data.IntrinsicValue * data.IntrinsicValue
                      < 45 * data.EPS * data.BookValue
                THEN "BUY" ELSE "HOLD"
           /\ (data.EPS = 1000 /\ data.BookValue = 2000)
                => (data.IntrinsicValue = 6708 /\ data.Signal = "BUY")

C3_Witness ==
    /\ Returned
    /\ data.EPS = 1000 /\ data.BookValue = 2000 /\ data.Price = 6708
    /\ data.IntrinsicValue = 6708

\* a price equal to a rounded-up intrinsic value: HOLD
C3_RoundedUpReached ==
    /\ Returned
    /\ data.EPS > 0 /\ data.BookValue > 0
    /\ data.Price = data.IntrinsicValue
    /\ data.Signal = "HOLD"

NumericFields ==
    {"Price", "PrevClose", "MarketCap", "PERatio", "ForwardPE", "PEGRatio",
     "PriceBook", "ROE", "DebtEquity", "EPS", "BookValue"}

\* C4 (as stated): a successful fetch with every field absent gives a data
\* record with Name = ticker, every numeric field 0, Sector "Unknown",
\* intrinsic value 0 and signal NEUTRAL.
C4_AllAbsentIsNeutral ==
    (pc = "returned" /\ outcome.ok /\ DOMAIN outcome.info = {})
        => /\ data.ok
           /\ data.Name = ticker
           /\ \A f \in NumericFields : data[f] = 0
           /\ data.Sector = "Unknown"
           /\ data.IntrinsicValue = 0
           /\ data.Signal = "NEUTRAL"

\* the data field a lookup key feeds
FieldOf(k) ==
    CASE k = "shortName" -> "Name"
      [] k = "currentPrice" -> "Price"
      [] k = "previousClose" -> "PrevClose"
      [] k = "marketCap" -> "MarketCap"
      [] k = "trailingPE" -> "PERatio"
      [] k = "forwardPE" -> "ForwardPE"
      [] k = "pegRatio" -> "PEGRatio"
      [] k = "priceToBook" -> "PriceBook"
      [] k = "returnOnEquity" -> "ROE"
      [] k = "debtToEquity" -> "DebtEquity"
      [] k = "trailingEps" -> "EPS"
      [] k = "bookValue" -> "BookValue"
      [] k = "sector" -> "Sector"
      [] OTHER -> "About"

\* C4 (amended): a successful fetch always gives a data record; each absent
\* field takes its own default whatever else is absent (Name the ticker,
\* numeric fields 0, Sector "Unknown") and each present one is kept; with every
\* field absent the intrinsic value is 0 and the signal is HOLD.
C4_AbsentFieldsDefaulted ==
    (pc = "returned" /\ outcome.ok)
        => /\ data.ok
           /\ data.Ticker = ticker
           /\ \A k \in InfoKeys \ {"longBusinessSummary"} :
                 data[FieldOf(k)] =
                    IF k \in DOMAIN outcome.info THEN outcome.info[k]
                    ELSE IF k = "shortName" THEN ticker
                    ELSE IF k = "sector" THEN "Unknown"
                    ELSE 0
           /\ "longBusinessSummary" \notin DOMAIN outcome.info
                 => data.About = NoSummary \o Marker
           /\ DOMAIN outcome.info = {}
                 => (data.IntrinsicValue = 0 /\ data.Signal = "HOLD")

C4_Witness ==
    /\ pc = "returned" /\ outcome.ok /\ DOMAIN outcome.info = {}
    /\ ticker = "X" /\ data.ok /\ data.Name = "X"

\* C8: feeding the fields of a returned record back through the
\* normalisation gives an identical record.
C8_NormalizeIdempotent ==
    pc = "renormalized" => data = prev

\* the only field a second pass changes is About
C8_OnlyAboutChanges ==
    pc = "renormalized" => [data EXCEPT !.About = prev.About] = prev

\* a second pass leaves About alone exactly when the raw summary had at least
\* AboutLimit characters
C8_FixedWhenTruncated ==
    pc = "renormalized" =>
        (data.About = prev.About
            <=> Len(Get(outcome.info, "longBusinessSummary", NoSummary))
                    >= AboutLimit)

C8_LongSummaryReached ==
    pc = "renormalized" /\ data = prev

----------------------------------------------------------------------------
(* Claims about the scans and the watchlist *)

RECURSIVE Pick(_, _, _)
\* the elements of seq at the positions in I, from position k on, in order
Pick(seq, I, k) ==
    IF k > Len(seq) THEN <<>>
    ELSE (IF k \in I THEN <<seq[k]>> ELSE <<>>) \o Pick(seq, I, k + 1)

RECURSIVE IsSubseq(_, _)
IsSubseq(a, b) ==
    IF a = <<>> THEN TRUE
    ELSE IF b = <<>> THEN FALSE
    ELSE IF Head(a) = Head(b) THEN IsSubseq(Tail(a), Tail(b))
    ELSE IsSubseq(a, Tail(b))

InDashboard == pc \in {"dashboard", "dashboard_shown"}
InScanner == pc \in {"scanner", "scanner_shown", "scanner_error"}
ScanOver == pc \in {"dashboard_shown", "scanner_shown", "scanner_error"}

ItemTickers == [i \in 1..Len(items) |-> items[i].text]
RowTickers == [i \in 1..Len(rows) |-> rows[i].Ticker]

\* the positions whose lookup succeeded, and those whose lookup succeeded
\* with eps > 0 and bookValue > 0
OkIdx == {i \in 1..Len(fetchLog) : fetchLog[i].ok}
ComputableIdx ==
    {i \in OkIdx : /\ Get(fetchLog[i].info, "trailingEps", 0) > 0
                   /\ Get(fetchLog[i].info, "bookValue", 0) > 0}
OkPositions == Pick([i \in 1..Len(fetchLog) |-> i], OkIdx, 1)

\* C5: the rows of a scan are a subsequence of the input order with no row
\* for a ticker whose fetch failed (the watchlist loop gives exactly the
\* succeeded tickers, in order), and a failure never stops the scan: every
\* ticker up to the last is fetched before the table is shown.
C5_RowsFollowInput ==
    (InDashboard \/ InScanner) =>
        /\ Len(fetchLog) = idx
        /\ ScanOver => idx = Len(items)
        /\ IsSubseq(RowTickers, Pick(ItemTickers, OkIdx, 1))
        /\ InDashboard => RowTickers = Pick(ItemTickers, OkIdx, 1)

\* scanning [A, B, C] with B failing gave [resultA, resultC]
C5_Witness ==
    /\ pc = "dashboard_shown"
    /\ Len(items) = 3
    /\ items[1] # items[2] /\ items[2] # items[3] /\ items[1] # items[3]
    /\ OkIdx = {1, 3}
    /\ RowTickers = <<items[1].text, items[3].text>>

\* the same in the scanner
C5_ScannerSkipReached ==
    /\ pc = "scanner_shown"
    /\ Len(items) = 3
    /\ OkIdx = {1, 3}
    /\ RowTickers = <<items[1].text, items[3].text>>

\* C7 (as stated): in both scans a ticker whose fetch succeeded always has
\* its row, also when eps or bookValue is not positive, so the number of
\* rows is the number of tickers whose fetch succeeded.
C7_RowPerSucceededTicker ==
    ScanOver => Len(rows) = Cardinality(OkIdx)

\* C7 (amended): the watchlist loop gives one row per ticker whose fetch
\* succeeded, with intrinsic value 0 and signal HOLD when eps or bookValue is
\* not positive; the scanner gives a row only to a ticker whose fetch
\* succeeded with eps > 0 and bookValue > 0 and leaves the others out.
C7_RowsPerScan ==
    /\ InDashboard =>
          /\ Len(rows) = Cardinality(OkIdx)
          /\ \A k \in 1..Len(rows) :
                LET i == OkPositions[k]
                IN  /\ rows[k].Ticker = items[i].text
                    /\ i \notin ComputableIdx
                          => (rows[k].Value = 0 /\ rows[k].Signal[2] = "HOLD")
    /\ InScanner =>
          /\ Len(rows) = Cardinality(ComputableIdx)
          /\ RowTickers = Pick(ItemTickers, ComputableIdx, 1)

\* the watchlist loop kept a ticker whose eps is not positive
C7_Witness ==
    /\ pc = "dashboard_shown"
    /\ Len(items) = 2
    /\ OkIdx = {1, 2}
    /\ ComputableIdx = {2}
    /\ Len(rows) = 2
    /\ rows[1].Value = 0 /\ rows[1].Signal = <<"yellow", "HOLD">>

\* the scanner left out a ticker whose fetch succeeded
C7_ScannerDropReached ==
    /\ pc = "scanner_shown"
    /\ OkIdx = {1, 2, 3}
    /\ Len(rows) = 1

NoDuplicates(seq) ==
    \A i, j \in 1..Len(seq) : i # j => seq[i] # seq[j]

\* C10: after any sequence of "Add to Watchlist" from a duplicate-free
\* watchlist the stored watchlist holds no ticker twice.
C10_NoDuplicateTickers ==
    NoDuplicates(watchlist_file)

\* C10, the part the code keeps: a ticker stored twice is made of digits
\* only (the column was read back as numbers)
C10_OnlyDigitTickersRepeat ==
    \A i, j \in 1..Len(watchlist_file) :
        (i # j /\ watchlist_file[i] = watchlist_file[j])
            => watchlist_file[i] \in DigitTexts

\* C10, the part the code keeps: the handler only ever appends, at the end,
\* the ticker that was typed
C10_AppendOnly ==
    [][pc = "idle" =>
          \/ watchlist_file' = watchlist_file
          \/ \E t \in SearchTickers :
                watchlist_file' = Append(watchlist_file, t)]_vars

----------------------------------------------------------------------------
(* Claims about the portfolio page *)

\* the positions, among those processed, whose lookup gave a current price
PricedIdx ==
    {i \in 1..Len(fetchLog) :
        fetchLog[i].ok /\ "currentPrice" \in DOMAIN fetchLog[i].info}

RECURSIVE SumOver(_, _)
SumOver(f, I) ==
    IF I = {} THEN 0
    ELSE LET i == CHOOSE x \in I : TRUE IN f[i] + SumOver(f, I \ {i})

InPortfolio == pc \in {"portfolio", "portfolio_shown", "portfolio_error"}

\* C6: a position whose lookup fails or gives no current price is skipped:
\* it adds nothing to the totals, the sector allocation or the holdings
\* rows, and the failure is not fatal, so the loop goes on and the totals
\* are produced.
C6_UnpricedPositionSkipped ==
    InPortfolio =>
        /\ pc # "portfolio_error"
        /\ Len(rows) = Cardinality(PricedIdx)
        /\ total_inv =
              SumOver([i \in 1..Len(items) |-> items[i].AvgPrice * items[i].Qty],
                      PricedIdx)
        /\ total_curr =
              SumOver([i \in 1..Len(items) |->
                          IF i \in PricedIdx
                          THEN fetchLog[i].info["currentPrice"] * items[i].Qty
                          ELSE 0],
                      PricedIdx)

\* C6, what the code does with a lookup that gives no current price: the
\* position is counted at its average price
C6_UnpricedCountedAtAvgPrice ==
    InPortfolio =>
        /\ Len(rows) = Cardinality(OkIdx)
        /\ \A k \in 1..Len(rows) :
              (fetchLog[k].ok /\ "currentPrice" \notin DOMAIN fetchLog[k].info)
                  => (rows[k].LTP = items[k].AvgPrice /\ rows[k].PnL = 0)
        /\ total_inv =
              SumOver([i \in 1..Len(items) |-> items[i].AvgPrice * items[i].Qty],
                      1..Len(rows))

\* C6, what the code does with a lookup that raises: the run ends there,
\* with the positions after it unprocessed
C6_FailureEndsRun ==
    InPortfolio =>
        (pc = "portfolio_error"
            <=> (fetchLog # <<>> /\ ~fetchLog[Len(fetchLog)].ok))

\* C6, what the code does with a lookup that raises: nothing of the run
\* survives it
C6_NothingAfterFailure ==
    [][pc = "portfolio_error" => (pc' = "idle" /\ rows' = <<>>)]_vars

C6_FailureReached ==
    pc = "portfolio_error" /\ Len(items) = 2 /\ Len(fetchLog) = 1

\* C9: after any sequence of "Save Trade" from an empty portfolio every
\* stored position has a quantity of at least 1 and a positive average
\* price, so the invested amount of a row and the total invested, the
\* divisors of the P&L percentages, are never zero.
C9_PositionsPositive ==
    /\ \A i \in 1..Len(portfolio_file) :
          /\ portfolio_file[i].Qty \in Nat
          /\ portfolio_file[i].Qty >= 1
          /\ portfolio_file[i].AvgPrice > 0
    /\ \A k \in 1..Len(rows) :
          InPortfolio => (rows[k].AvgPrice * rows[k].Qty > 0
                          /\ rows[k].PnLPct.finite)
    /\ pc = "portfolio_shown" => (total_inv > 0 /\ NetPct.finite)

C9_Witness ==
    /\ pc = "portfolio_shown"
    /\ Len(portfolio_file) = 2
    /\ Len(rows) = 2
    /\ portfolio_file[1].Qty = 1
    /\ portfolio_file[1].AvgPrice = AvgPriceMin * Cents
    /\ NetPct.finite

----------------------------------------------------------------------------
(* The whole program: the pages of one session over the two files, and the *)
(* calls of the valuation step.                                            *)

Init == InitValuation \/ InitWatchlist

Next == NextValuation \/ NextWatchlist \/ NextPortfolio

Spec == Init /\ [][Next]_vars

====
